---------------------------- MODULE Spec2Model ----------------------------
(***************************************************************************)
(* pyodk: EntityService._prep_data_for_merge (the diff of a source dataset *)
(* against a snapshot of an Entity List) and EntityService.merge (the      *)
(* orchestration of the remote calls that apply the diff).                 *)
(*                                                                         *)
(* Python values are records [kind, n, s]: a str carries its text in s, an *)
(* int and a whole float carry their number in n, None carries nothing,    *)
(* and the "__system" mapping of a target row carries its version in n.    *)
(* A row (a Python dict of field name -> value) is a function whose domain *)
(* is the set of its field names.  An optional argument is a set: {} for   *)
(* None and {x} for the value x.  A Python dict keyed by composite keys is *)
(* a sequence of [key, row] entries in insertion order.                    *)
(***************************************************************************)
EXTENDS Integers, Sequences, FiniteSets, TLC

(***************************************************************************)
(* Bounds of the model.                                                    *)
(***************************************************************************)
MaxSourceRows == 2   \* rows of a source dataset given to the diff
MaxTargetRows == 2   \* rows of a snapshot given to the diff
MaxRuns == 2         \* invocations of merge, one after the other
MaxFaults == 1       \* remote calls that fail for a reason of the remote's
MaxEdits == 1        \* edits of the collection by another client

(***************************************************************************)
(* Python values.                                                          *)
(***************************************************************************)
StrVal(t) == [kind |-> "str", n |-> 0, s |-> t]
IntVal(i) == [kind |-> "int", n |-> i, s |-> ""]
FloatVal(i) == [kind |-> "float", n |-> i, s |-> ""]
NoneVal == [kind |-> "none", n |-> 0, s |-> ""]
System(version) == [kind |-> "system", n |-> version, s |-> ""]

Digits == <<"0", "1", "2", "3", "4", "5", "6", "7", "8", "9">>

RECURSIVE IntToStr(_)
IntToStr(i) ==
    IF i < 10 THEN Digits[i + 1]
    ELSE IntToStr(i \div 10) \o Digits[(i % 10) + 1]

\* str(v): the text of a str is itself, of an int its decimal digits, of a
\* whole float the digits followed by ".0", of None the text "None".
PyStr(v) ==
    CASE v.kind = "str" -> v.s
      [] v.kind = "int" -> IntToStr(v.n)
      [] v.kind = "float" -> IntToStr(v.n) \o ".0"
      [] v.kind = "none" -> "None"
      [] OTHER -> "{'version': " \o IntToStr(v.n) \o "}"

\* a == b on Python values: an int equals the whole float of the same number,
\* values of other kinds are equal when they are the same value.
PyEq(a, b) ==
    IF a.kind \in {"int", "float"} /\ b.kind \in {"int", "float"}
    THEN a.n = b.n
    ELSE a = b

\* Equality of two tuples, as the dict lookup of a composite key decides it.
KeyEq(k1, k2) ==
    /\ Len(k1) = Len(k2)
    /\ \A i \in 1..Len(k1) : PyEq(k1[i], k2[i])

(***************************************************************************)
(* Field names, in the order sorted() gives strings (code point order).    *)
(***************************************************************************)
FieldOrder == <<"__id", "__system", "city", "label", "postcode", "state">>
Rank(f) == CHOOSE i \in 1..Len(FieldOrder) : FieldOrder[i] = f

InsertSorted(x, sorted) ==
    SelectSeq(sorted, LAMBDA y : Rank(y) <= Rank(x)) \o <<x>>
        \o SelectSeq(sorted, LAMBDA y : Rank(y) > Rank(x))

\* The match keys in the order the caller gave them.
Unsorted(keys) == keys

RECURSIVE Sorted(_)
Sorted(keys) ==
    IF keys = <<>> THEN <<>> ELSE InsertSorted(Head(keys), Sorted(Tail(keys)))

(***************************************************************************)
(* MergeActions and the dicts of _prep_data_for_merge.                     *)
(***************************************************************************)
reserved_keys == {"__id", "__system", "label"}
default_key == "label"

Some(opt) == CHOOSE x \in opt : TRUE

DictFind(d, key) ==
    IF \E i \in 1..Len(d) : KeyEq(d[i].key, key)
    THEN CHOOSE i \in 1..Len(d) : KeyEq(d[i].key, key)
    ELSE 0

DictHas(d, key) == DictFind(d, key) # 0
DictGet(d, key) == d[DictFind(d, key)].row

\* A list of entries in place of the dict: every assignment adds an entry.
DictSetAppend(d, key, row) == Append(d, [key |-> key, row |-> row])

\* d[key] = row: an existing key keeps its place and takes the new row.
DictSet(d, key, row) ==
    IF DictHas(d, key)
    THEN [d EXCEPT ![DictFind(d, key)].row = row]
    ELSE Append(d, [key |-> key, row |-> row])

\* d.pop(key): d without the entry of key.
DictPop(d, key) ==
    LET at == DictFind(d, key)
    IN  IF at = 0 THEN d
        ELSE [i \in 1..(Len(d) - 1) |-> IF i < at THEN d[i] ELSE d[i + 1]]

DictKeys(d) == {d[i].key : i \in 1..Len(d)}
DictRows(d) == [i \in 1..Len(d) |-> d[i].row]

\* keys: the sorted match keys.  The first of them the entity lacks, if any.
MissingKeys(entity, keys) ==
    {i \in 1..Len(keys) : keys[i] \notin DOMAIN entity}
\* The last of the match keys the entity lacks.
LastMissing(entity, keys) ==
    keys[CHOOSE i \in MissingKeys(entity, keys) :
            \A j \in MissingKeys(entity, keys) : i >= j]

FirstMissing(entity, keys) ==
    keys[CHOOSE i \in MissingKeys(entity, keys) :
            \A j \in MissingKeys(entity, keys) : i <= j]

get_key(entity, keys) == [i \in 1..Len(keys) |-> entity[keys[i]]]

\* row = {default_key: s[source_label_key]}, updated with the other fields of
\* s, or with those of them that are in source_keys when it is given.
NormalizedRow(s, source_label_key, source_keys) ==
    LET kept == {k \in DOMAIN s :
                    /\ k # source_label_key
                    /\ (source_keys = {} \/ k \in Some(source_keys))}
    IN  [k \in {default_key} \cup kept |->
            IF k \in kept THEN s[k] ELSE s[source_label_key]]

\* A comparison of the source value itself with the target value.
DiffersUncoerced(new_value, v) == new_value # v

\* str(new_value) != v
Differs(new_value, v) == ~(v.kind = "str" /\ v.s = PyStr(new_value))

ErrorResult(error, missing) ==
    [error |-> error, missing |-> missing, match_keys |-> <<>>,
     to_insert |-> <<>>, to_update |-> <<>>, to_delete |-> <<>>,
     source_keys |-> {}, target_keys |-> {}, final_keys |-> {}]

\* A source loop in which a row whose key is already in src is not counted,
\* so that len(src) always equals source_data_len.
SourceStepUncounted(acc, s, label_key, source_keys, keys) ==
    IF acc.error # "" THEN acc
    ELSE IF label_key \notin DOMAIN s
    THEN [acc EXCEPT !.error = "KeyError", !.missing = label_key]
    ELSE LET row == NormalizedRow(s, label_key, source_keys)
         IN  IF MissingKeys(row, keys) # {}
             THEN [acc EXCEPT !.error = "missing_match_key",
                              !.missing = FirstMissing(row, keys)]
             ELSE [acc EXCEPT !.src = DictSet(@, get_key(row, keys), row),
                              !.source_keys = @ \cup DOMAIN row,
                              !.source_data_len =
                                    Len(DictSet(acc.src, get_key(row, keys), row))]

\* One pass of "for s in source_data".
SourceStep(acc, s, label_key, source_keys, keys) ==
    IF acc.error # "" THEN acc
    ELSE IF label_key \notin DOMAIN s
    THEN [acc EXCEPT !.error = "KeyError", !.missing = label_key]
    ELSE LET row == NormalizedRow(s, label_key, source_keys)
         IN  IF MissingKeys(row, keys) # {}
             THEN [acc EXCEPT !.error = "missing_match_key",
                              !.missing = FirstMissing(row, keys)]
             ELSE [acc EXCEPT !.src = DictSet(@, get_key(row, keys), row),
                              !.source_keys = @ \cup DOMAIN row,
                              !.source_data_len = @ + 1]

RECURSIVE SourceLoop(_, _, _, _, _)
SourceLoop(acc, source_data, label_key, source_keys, keys) ==
    IF source_data = <<>> THEN acc
    ELSE SourceLoop(SourceStep(acc, Head(source_data), label_key, source_keys, keys),
                    Tail(source_data), label_key, source_keys, keys)

\* The update payload of a matched pair (t the target row, match the source
\* row) and whether anything was staged.
StagedChanged(t, match) ==
    {k \in DOMAIN t \ reserved_keys :
        k \in DOMAIN match /\ Differs(match[k], t[k])}
\* A diff that stages nothing for a source field the target row lacks.
StagedNewNone(t, match) == {}

StagedNew(t, match) == {k \in DOMAIN match : k \notin DOMAIN t}
\* A payload that takes the label of the source row.
NewDataSourceLabel(t, match) ==
    [k \in (DOMAIN t \cap reserved_keys) \cup StagedChanged(t, match)
            \cup StagedNew(t, match) |->
        IF k \in (DOMAIN t \cap reserved_keys) \ {"label"} THEN t[k] ELSE match[k]]

NewData(t, match) ==
    [k \in (DOMAIN t \cap reserved_keys) \cup StagedChanged(t, match)
            \cup StagedNew(t, match) |->
        IF k \in DOMAIN t \cap reserved_keys THEN t[k] ELSE match[k]]
ForUpdate(t, match) == StagedChanged(t, match) \cup StagedNew(t, match) # {}

\* A target loop that reads the matched source row with src.get(key) and
\* leaves it in src.
TargetStepKeeping(acc, t, keys) ==
    IF acc.error # "" THEN acc
    ELSE IF MissingKeys(t, keys) # {}
    THEN [acc EXCEPT !.error = "missing_match_key",
                     !.missing = FirstMissing(t, keys)]
    ELSE LET key == get_key(t, keys)
             seen == [acc EXCEPT !.target_keys = @ \cup DOMAIN t]
         IN  IF ~DictHas(acc.src, key)
             THEN [seen EXCEPT !.to_delete = DictSet(@, key, t)]
             ELSE LET match == DictGet(acc.src, key)
                  IN  IF ForUpdate(t, match)
                      THEN [seen EXCEPT
                              !.to_update = DictSet(@, key, NewData(t, match))]
                      ELSE seen

\* One pass of "for t in target_data".
TargetStep(acc, t, keys) ==
    IF acc.error # "" THEN acc
    ELSE IF MissingKeys(t, keys) # {}
    THEN [acc EXCEPT !.error = "missing_match_key",
                     !.missing = FirstMissing(t, keys)]
    ELSE LET key == get_key(t, keys)
             seen == [acc EXCEPT !.target_keys = @ \cup DOMAIN t]
         IN  IF ~DictHas(acc.src, key)
             THEN [seen EXCEPT !.to_delete = DictSet(@, key, t)]
             ELSE LET match == DictGet(acc.src, key)
                      popped == [seen EXCEPT !.src = DictPop(@, key)]
                  IN  IF ForUpdate(t, match)
                      THEN [popped EXCEPT
                              !.to_update = DictSet(@, key, NewData(t, match))]
                      ELSE popped

RECURSIVE TargetLoop(_, _, _)
TargetLoop(acc, target_data, keys) ==
    IF target_data = <<>> THEN acc
    ELSE TargetLoop(TargetStep(acc, Head(target_data), keys),
                    Tail(target_data), keys)

\* EntityService._prep_data_for_merge.  a: the arguments of the call.
prep_data_for_merge(a, target_data) ==
    LET source_label_key ==
            IF a.source_label_key = {} THEN default_key
            ELSE Some(a.source_label_key)
        match_keys ==
            IF a.match_keys = {} THEN <<default_key>> ELSE Some(a.match_keys)
        match_keys_sorted == Sorted(match_keys)
        s == SourceLoop([error |-> "", missing |-> "", src |-> <<>>,
                         source_keys |-> {}, source_data_len |-> 0],
                        a.data, source_label_key, a.source_keys,
                        match_keys_sorted)
        t == TargetLoop([error |-> "", missing |-> "", src |-> s.src,
                         to_update |-> <<>>, to_delete |-> <<>>,
                         target_keys |-> {}],
                        target_data, match_keys_sorted)
    IN  IF a.source_keys # {} /\ source_label_key \notin Some(a.source_keys)
        THEN ErrorResult("source_keys", "")
        ELSE IF s.error # "" THEN ErrorResult(s.error, s.missing)
        ELSE IF Len(s.src) # s.source_data_len
        THEN ErrorResult("not_unique", "")
        ELSE IF t.error # "" THEN ErrorResult(t.error, t.missing)
        ELSE [error |-> "", missing |-> "",
              match_keys |-> match_keys_sorted,
              to_insert |-> t.src, to_update |-> t.to_update,
              to_delete |-> t.to_delete,
              source_keys |-> s.source_keys, target_keys |-> t.target_keys,
              final_keys |-> {}]

(***************************************************************************)
(* The Entity List as the diff sees it: what the collection holds after    *)
(* the staged actions are applied to the rows of a snapshot.  "Entity      *)
(* values are stored in Central as strings": a value that is not None is   *)
(* kept as its text.                                                       *)
(***************************************************************************)
Stored(v) == IF v.kind = "none" THEN NoneVal ELSE StrVal(PyStr(v))

EntityId(prefix, i) == StrVal(prefix \o IntToStr(i))

\* An entity row made of the row sent to the collection.
CreatedRow(row, id) ==
    [k \in DOMAIN row \cup {"__id", "__system"} |->
        CASE k = "__id" -> id
          [] k = "__system" -> System(1)
          [] OTHER -> Stored(row[k])]

\* The row t after an update that sends the fields of data.
UpdatedRow(t, data) ==
    [k \in DOMAIN t \cup DOMAIN data |->
        CASE k = "__system" -> System(t[k].n + 1)
          [] k \in DOMAIN data -> Stored(data[k])
          [] OTHER -> t[k]]

\* The rows of target_data with the staged actions applied: the rows of
\* to_delete removed, the payloads of to_update written to their rows, and
\* the rows of to_insert created.
AppliedTo(target_data, actions) ==
    LET deleted == {actions.to_delete[i].row["__id"] :
                        i \in 1..Len(actions.to_delete)}
        Payload(t) ==
            LET at == {i \in 1..Len(actions.to_update) :
                          actions.to_update[i].row["__id"] = t["__id"]}
            IN  IF at = {} THEN {}
                ELSE {actions.to_update[CHOOSE i \in at : TRUE].row}
        Written(t) ==
            IF Payload(t) = {} THEN t
            ELSE LET u == Some(Payload(t))
                 IN  UpdatedRow(t, [k \in DOMAIN u \ {"__id", "__system"} |-> u[k]])
        kept == SelectSeq(target_data, LAMBDA t : t["__id"] \notin deleted)
    IN  [i \in 1..Len(kept) |-> Written(kept[i])]
        \o [i \in 1..Len(actions.to_insert) |->
                CreatedRow(actions.to_insert[i].row, EntityId("n", i))]

VARIABLES
    args,           \* the arguments of merge / _prep_data_for_merge
    target_data,    \* the rows the diff is computed against
    merge_actions,  \* the MergeActions of the last diff
    first_actions,  \* the MergeActions of the first diff of these arguments
    pc,             \* where the computation stands
    remote,         \* the Entity List: [rows, schema, created]
    calls,          \* the remote calls issued so far, in order
    run,            \* the number of the current invocation of merge
    pending,        \* keys_difference still to register
    cursor,         \* rows of to_update / to_delete already sent
    result,         \* what the invocation returned, if it returned
    error,          \* what the invocation raised, if it raised
    faults,         \* remote calls failed so far by the remote
    edits,          \* edits made so far by another client
    peer,           \* a second invocation of merge, while it is not running
    service         \* the defaults the EntityService was constructed with

diff_vars == <<args, target_data, merge_actions, first_actions, pc>>
merge_vars ==
    <<remote, calls, run, pending, cursor, result, error, faults, edits, peer,
      service>>
vars == <<args, target_data, merge_actions, first_actions, pc,
          remote, calls, run, pending, cursor, result, error, faults, edits, peer,
          service>>

NoActions == ErrorResult("", "")

\* The locals of an invocation of merge that has been called and has made no
\* remote call yet; no second invocation.
Called(r) ==
    [run |-> r, pc |-> "get_table", target_data |-> <<>>,
     merge_actions |-> NoActions, pending |-> {}, cursor |-> 0,
     result |-> {}, error |-> ""]
NoPeer == [Called(0) EXCEPT !.pc = "none"]

\* An EntityService with a default project and a default Entity List.
DefaultService ==
    [default_project_id |-> {1}, default_entity_list_name |-> {"towns"}]

(***************************************************************************)
(* The inputs of the diff.                                                 *)
(***************************************************************************)
Labels == {StrVal("A"), StrVal("B")}
SourcePostcodes == {StrVal("2000"), IntVal(2000), NoneVal}
TargetPostcodes == {StrVal("2000"), StrVal("2001")}

\* The row with the fields of f whose option is not empty.
RowOf(f) == [k \in {k \in DOMAIN f : f[k] # {}} |-> Some(f[k])]
Opt(S) == {{}} \cup {{x} : x \in S}

SourceRows(label_key) ==
    {RowOf([k \in {label_key, "postcode"} |->
                IF k = "postcode" THEN p ELSE {l}]) :
        l \in Labels, p \in Opt(SourcePostcodes)}

TargetRows ==
    {RowOf([k \in {"label", "postcode"} |->
                IF k = "postcode" THEN p ELSE {l}]) :
        l \in Labels, p \in Opt(TargetPostcodes)}

SeqsUpTo(S, n) == UNION {[1..m -> S] : m \in 0..n}

\* A snapshot: every row carries its identifier and its version.
Snapshot(rows) ==
    [i \in 1..Len(rows) |->
        [k \in DOMAIN rows[i] \cup {"__id", "__system"} |->
            CASE k = "__id" -> EntityId("e", i)
              [] k = "__system" -> System(1)
              [] OTHER -> rows[i][k]]]

DiffConfig(mk, lk, sk) ==
    [match_keys |-> mk, source_label_key |-> lk, source_keys |-> sk]

DiffConfigs ==
    {DiffConfig({}, {}, {}),
     DiffConfig({<<"postcode">>}, {"label"}, {}),
     DiffConfig({<<"postcode", "label">>}, {"label"}, {}),
     DiffConfig({}, {"city"}, {{"city"}})}

InitDiff ==
    /\ \E c \in DiffConfigs :
       \E data \in SeqsUpTo(SourceRows(IF c.source_label_key = {}
                                       THEN default_key
                                       ELSE Some(c.source_label_key)),
                            MaxSourceRows) :
          args = [data |-> data, match_keys |-> c.match_keys,
                  source_label_key |-> c.source_label_key,
                  source_keys |-> c.source_keys]
    /\ \E rows \in SeqsUpTo(TargetRows, MaxTargetRows) :
          target_data = Snapshot(rows)
    /\ merge_actions = NoActions
    /\ first_actions = NoActions
    /\ pc = "start"
    /\ remote = [rows |-> <<>>, schema |-> {}, created |-> 0]
    /\ calls = <<>>
    /\ run = 0
    /\ pending = {}
    /\ cursor = 0
    /\ result = {}
    /\ error = ""
    /\ faults = 0
    /\ edits = 0
    /\ peer = NoPeer
    /\ service = DefaultService

\* The call _prep_data_for_merge(source_data, target_data, ...).
Diff ==
    /\ pc = "start"
    /\ merge_actions' = prep_data_for_merge(args, target_data)
    /\ first_actions' = merge_actions'
    /\ pc' = IF merge_actions'.error = "" THEN "diffed" ELSE "raised"
    /\ UNCHANGED <<args, target_data>>
    /\ UNCHANGED merge_vars

\* The staged actions are applied to the rows and the same source is
\* diffed against the result.
Rediff ==
    /\ pc = "diffed"
    /\ target_data' = AppliedTo(target_data, merge_actions)
    /\ merge_actions' = prep_data_for_merge(args, target_data')
    /\ pc' = "rediffed"
    /\ UNCHANGED <<args, first_actions>>
    /\ UNCHANGED merge_vars

NextDiff == Diff \/ Rediff

SpecDiff == InitDiff /\ [][NextDiff]_vars

(***************************************************************************)
(* EntityService.merge against an Entity List.                             *)
(*                                                                         *)
(* remote is the Entity List the snapshot of merge is read from:            *)
(* remote.rows are the entities (each with "__id", "__system", "label" and *)
(* the properties it has a value for), remote.schema the registered        *)
(* properties, remote.created the number of entities ever created.         *)
(***************************************************************************)
Row1(l) == [label |-> StrVal(l)]
Row2(l, p) == [label |-> StrVal(l), postcode |-> StrVal(p)]
Row3(l, p, s) ==
    [label |-> StrVal(l), postcode |-> StrVal(p), state |-> StrVal(s)]
Entity(i, version, row) ==
    [k \in DOMAIN row \cup {"__id", "__system"} |->
        CASE k = "__id" -> EntityId("e", i)
          [] k = "__system" -> System(version)
          [] OTHER -> row[k]]

MergeSources ==
    {<<Row2("A", "2000"), Row2("B", "2000")>>,
     <<Row2("A", "2000"), Row2("A", "2001")>>,
     <<Row2("A", "2000"), Row1("B")>>,
     <<Row3("A", "2000", "NSW")>>}

MergeConfigs ==
    {DiffConfig({}, {}, {}),
     DiffConfig({<<"postcode">>}, {"label"}, {}),
     DiffConfig({}, {"label"}, {{"postcode"}})}

InitialRemotes ==
    {[rows |-> <<>>, schema |-> {}, created |-> 0],
     [rows |-> <<>>, schema |-> {"postcode"}, created |-> 0],
     [rows |-> <<Entity(1, 1, Row2("A", "2001")), Entity(2, 3, Row2("C", "2000"))>>,
      schema |-> {"postcode"}, created |-> 2],
     [rows |-> <<Entity(1, 2, Row1("A")), Entity(2, 1, Row1("A"))>>,
      schema |-> {}, created |-> 2]}

\* Every source field that is not reserved, in the target or not.
keys_of_source(m) == m.source_keys \ reserved_keys

\* MergeActions.keys_difference, keys_intersect, keys_union
keys_difference(m) == (m.source_keys \ m.target_keys) \ reserved_keys
\* The source fields, whether the target has them or not.
keys_ignoring_target(m) == m.source_keys \ reserved_keys

keys_intersect(m) == (m.source_keys \cap m.target_keys) \ reserved_keys
keys_union(m) == (m.source_keys \cup m.target_keys) \ reserved_keys

\* get_table(...)["value"]: every entity with all the properties of the
\* schema, None where the entity has no value.
TableOf(r) ==
    [i \in 1..Len(r.rows) |->
        [k \in DOMAIN r.rows[i] \cup r.schema |->
            IF k \in DOMAIN r.rows[i] THEN r.rows[i][k] ELSE NoneVal]]

\* coalesce(*args): the first of the values that is not None.
coalesce(first, second) == IF first # {} THEN first ELSE second

\* validate_project_id(project_id, default), validate_entity_list_name(name,
\* default): the value to use, {} when there is none (the call raises).
validate_project_id(project_id, default) == coalesce(project_id, default)
validate_entity_list_name(name, default) == coalesce(name, default)

\* pid and eln of merge.
pid == validate_project_id(args.project_id, service.default_project_id)
eln == validate_entity_list_name(args.entity_list_name,
                                 service.default_entity_list_name)

\* The project a remote call of merge addresses.  get_table, create_many,
\* update and delete are called without a project_id and fall back on the
\* default of the service; elps is constructed with pid as its default.
ProjectOf(op) ==
    IF op = "property" THEN validate_project_id({}, pid)
    ELSE validate_project_id({}, service.default_project_id)

\* The Entity List a remote call of merge addresses.  get_table is called
\* with the entity_list_name argument, the other methods with eln, and elps
\* is constructed with eln as its default.
ListOf(op) ==
    CASE op = "get_table" ->
            validate_entity_list_name(args.entity_list_name,
                                      service.default_entity_list_name)
      [] op = "property" -> validate_entity_list_name({}, eln)
      [] OTHER ->
            validate_entity_list_name(eln, service.default_entity_list_name)

\* The call addresses the Entity List the snapshot is read from.
AtRemote(op) ==
    /\ ProjectOf(op) = ProjectOf("get_table")
    /\ ListOf(op) = ListOf("get_table")

\* The call record of one remote call.
Call(op, name, rows, base_version, ok) ==
    [run |-> run, op |-> op, name |-> name, rows |-> rows,
     base_version |-> base_version, ok |-> ok,
     project |-> Some(ProjectOf(op)), list |-> Some(ListOf(op))]

\* A batch create that sends the rows of to_insert as they are.
insert_unfiltered(m) == DictRows(m.to_insert)

\* insert_filter: each row of to_insert cut to "label" and final_keys.
insert_filter(m) ==
    [i \in 1..Len(m.to_insert) |->
        LET row == m.to_insert[i].row
        IN  [k \in DOMAIN row \cap ({"label"} \cup m.final_keys) |-> row[k]]]

\* The data of the update request of payload u.
update_data(u, m) == [k \in DOMAIN u \cap m.final_keys |-> u[k]]

\* An update that sends every field of the payload but the identifier and
\* the version.
update_whole(u, m) == [k \in DOMAIN u \ {"__id", "__system"} |-> u[k]]

\* What the update request of payload u writes: its label and its data.
update_fields(u, m) ==
    [k \in {"label"} \cup (DOMAIN u \cap m.final_keys) |-> u[k]]

\* An update that sends the version the entity is at when the request is made.
current_version_of(u) ==
    IF \E i \in 1..Len(remote.rows) : remote.rows[i]["__id"] = u["__id"]
    THEN (CHOOSE r \in {remote.rows[i] : i \in 1..Len(remote.rows)} :
                r["__id"] = u["__id"])["__system"].n
    ELSE u["__system"].n

\* base_version=u["__system"]["version"]
base_version_of(u) == u["__system"].n

\* A remote that applies an update whatever version the request expects.
AcceptsAnyVersion(r, at, base_version) == at # 0

\* The remote applies an update to the entity at place at when the entity
\* exists and is at the version the request expects.
Accepts(r, at, base_version) ==
    at # 0 /\ r.rows[at]["__system"].n = base_version

\* Where merge goes on once the properties are registered, once the rows
\* are created, and once the updates are sent.
AfterProperties(a, m) ==
    IF Len(m.to_insert) > 0 THEN "create_many"
    ELSE IF a.update_matched /\ Len(m.to_update) > 0 THEN "update"
    ELSE IF a.delete_not_matched /\ Len(m.to_delete) > 0 THEN "delete"
    ELSE "returned"
\* A merge that sends its updates whatever update_matched is.
AfterCreateUpdating(a, m) ==
    IF Len(m.to_update) > 0 THEN "update"
    ELSE IF a.delete_not_matched /\ Len(m.to_delete) > 0 THEN "delete"
    ELSE "returned"

AfterCreate(a, m) ==
    IF a.update_matched /\ Len(m.to_update) > 0 THEN "update"
    ELSE IF a.delete_not_matched /\ Len(m.to_delete) > 0 THEN "delete"
    ELSE "returned"
\* A merge that creates the rows of to_insert once more after its updates.
AfterUpdatesCreateAgain(a, m) ==
    IF Len(m.to_insert) > 0 THEN "create_many"
    ELSE IF a.delete_not_matched /\ Len(m.to_delete) > 0 THEN "delete"
    ELSE "returned"

AfterUpdates(a, m) ==
    IF a.delete_not_matched /\ Len(m.to_delete) > 0 THEN "delete"
    ELSE "returned"

EntityAt(r, id) ==
    IF \E i \in 1..Len(r.rows) : r.rows[i]["__id"] = id
    THEN CHOOSE i \in 1..Len(r.rows) : r.rows[i]["__id"] = id
    ELSE 0

\* A remote call fails when the remote refuses it, and it may fail for a
\* reason of the remote's own (response_or_error raises on either).
Finished == {"idle", "returned", "raised"}
MayFail == faults < MaxFaults

\* A merge that swallows the error and returns its MergeActions.
RaiseSuppressed(kind) ==
    /\ pc' = "returned"
    /\ error' = ""
    /\ result' = {merge_actions}

Raise(kind) ==
    /\ pc' = "raised"
    /\ error' = kind
    /\ result' = {}

Goto(next) ==
    /\ pc' = next
    /\ error' = ""
    /\ result' = IF next = "returned" THEN {merge_actions'} ELSE {}

Init ==
    /\ \E c \in MergeConfigs : \E data \in MergeSources :
       \E add \in BOOLEAN : \E upd \in BOOLEAN : \E del \in BOOLEAN :
          args = [data |-> data, match_keys |-> c.match_keys,
                  source_label_key |-> c.source_label_key,
                  source_keys |-> c.source_keys,
                  add_new_properties |-> add, update_matched |-> upd,
                  delete_not_matched |-> del,
                  project_id |-> {}, entity_list_name |-> {}]
    /\ remote \in InitialRemotes
    /\ target_data = <<>>
    /\ merge_actions = NoActions
    /\ first_actions = NoActions
    /\ pc = "idle"
    /\ calls = <<>>
    /\ run = 0
    /\ pending = {}
    /\ cursor = 0
    /\ result = {}
    /\ error = ""
    /\ faults = 0
    /\ edits = 0
    /\ peer = NoPeer
    /\ service = DefaultService

\* merge(...) is called: the project id and the list name are validated, and
\* merge raises when one of them is given neither as an argument nor as a
\* default.
StartMerge ==
    /\ pc \in Finished
    /\ run < MaxRuns
    /\ run' = run + 1
    /\ target_data' = <<>>
    /\ merge_actions' = NoActions
    /\ pending' = {}
    /\ cursor' = 0
    /\ IF pid = {} \/ eln = {}
       THEN Raise("argument")
       ELSE /\ pc' = "get_table"
            /\ result' = {}
            /\ error' = ""
    /\ UNCHANGED <<args, first_actions, remote, calls, faults, edits, peer, service>>

\* A merge that sends the union of the keys whatever add_new_properties is.
WithFinalKeysUnion(a, m) == [m EXCEPT !.final_keys = keys_union(m)]

\* merge_actions.final_keys = keys_union or keys_intersect
WithFinalKeys(a, m) ==
    [m EXCEPT !.final_keys = IF a.add_new_properties
                             THEN keys_union(m) ELSE keys_intersect(m)]

\* merge_actions = self._prep_data_for_merge(...) on the rows just read; a
\* validation error of the diff is raised.  final_keys is chosen once the
\* properties of keys_difference are registered.
Prepare(m) ==
    IF m.error # ""
    THEN /\ merge_actions' = m
         /\ pending' = {}
         /\ Raise(m.error)
    ELSE /\ pending' = IF args.add_new_properties
                       THEN keys_difference(m) ELSE {}
         /\ merge_actions' = IF pending' # {} THEN m ELSE WithFinalKeys(args, m)
         /\ Goto(IF pending' # {} THEN "properties"
                 ELSE AfterProperties(args, merge_actions'))

\* target_data = self.get_table(...)["value"], then the diff against it.
\* get_table validates the project it is to read from before it reads.
ReadThenPrepare ==
    \/ /\ ProjectOf("get_table") = {}
       /\ Raise("argument")
       /\ UNCHANGED <<calls, target_data, merge_actions, pending, faults>>
    \/ /\ ProjectOf("get_table") # {}
       /\ calls' = Append(calls, Call("get_table", "", <<>>, 0, TRUE))
       /\ target_data' = TableOf(remote)
       /\ Prepare(prep_data_for_merge(args, target_data'))
       /\ UNCHANGED faults
    \/ /\ ProjectOf("get_table") # {}
       /\ MayFail
       /\ calls' = Append(calls, Call("get_table", "", <<>>, 0, FALSE))
       /\ faults' = faults + 1
       /\ Raise("remote")
       /\ UNCHANGED <<target_data, merge_actions, pending>>

\* A merge that validates its source before it reads the Entity List.
PrepareThenRead ==
    IF prep_data_for_merge(args, <<>>).error # ""
    THEN /\ Prepare(prep_data_for_merge(args, <<>>))
         /\ UNCHANGED <<calls, target_data, faults>>
    ELSE ReadThenPrepare

\* The statements of merge up to the first write.
Snapshot_and_diff == ReadThenPrepare

GetTable ==
    /\ pc = "get_table"
    /\ Snapshot_and_diff
    /\ first_actions' = IF run = 1 THEN merge_actions' ELSE first_actions
    /\ UNCHANGED <<args, remote, run, cursor, edits, peer, service>>

\* elps.create(name=k) for one k of keys_difference.  A call that addresses
\* another Entity List than the one the snapshot was read from leaves this
\* one as it is, and succeeds or fails as that other list decides.
RegisterProperty ==
    /\ pc = "properties"
    /\ \E k \in pending :
          \/ /\ AtRemote("property") => k \notin remote.schema
             /\ remote' = IF AtRemote("property")
                          THEN [remote EXCEPT !.schema = @ \cup {k}]
                          ELSE remote
             /\ calls' = Append(calls, Call("property", k, <<>>, 0, TRUE))
             /\ pending' = pending \ {k}
             /\ merge_actions' = IF pending' # {} THEN merge_actions
                                 ELSE WithFinalKeys(args, merge_actions)
             /\ Goto(IF pending' # {} THEN "properties"
                     ELSE AfterProperties(args, merge_actions'))
             /\ UNCHANGED faults
          \/ /\ k \in remote.schema \/ ~AtRemote("property") \/ MayFail
             /\ calls' = Append(calls, Call("property", k, <<>>, 0, FALSE))
             /\ faults' = IF k \in remote.schema \/ ~AtRemote("property")
                          THEN faults ELSE faults + 1
             /\ Raise("remote")
             /\ UNCHANGED <<remote, pending, merge_actions>>
    /\ UNCHANGED <<args, target_data, first_actions, run, cursor, edits, peer, service>>

\* self.create_many(data=insert_filter, ...)
CreateMany ==
    /\ pc = "create_many"
    /\ LET rows == insert_filter(merge_actions)
       IN  \/ /\ remote' =
                    [remote EXCEPT
                        !.rows = @ \o [i \in 1..Len(rows) |->
                            CreatedRow(rows[i], EntityId("e", remote.created + i))],
                        !.created = @ + Len(rows)]
              /\ calls' = Append(calls, Call("create_many", "", rows, 0, TRUE))
              /\ merge_actions' = merge_actions
              /\ Goto(AfterCreate(args, merge_actions))
              /\ UNCHANGED faults
           \/ /\ MayFail
              /\ calls' = Append(calls, Call("create_many", "", rows, 0, FALSE))
              /\ faults' = faults + 1
              /\ Raise("remote")
              /\ UNCHANGED <<remote, merge_actions>>
    /\ UNCHANGED <<args, target_data, first_actions, run, pending, cursor, edits, peer, service>>

\* self.update(uuid=u["__id"], label=u["label"], data=..., base_version=...)
\* for the next u of to_update.values().
Update ==
    /\ pc = "update"
    /\ LET u == merge_actions.to_update[cursor + 1].row
           id == u["__id"]
           base_version == base_version_of(u)
           fields == update_fields(u, merge_actions)
           at == EntityAt(remote, id)
           accepted == Accepts(remote, at, base_version)
       IN  \/ /\ accepted
              /\ remote' = [remote EXCEPT
                                !.rows[at] = UpdatedRow(@, fields)]
              /\ calls' = Append(calls,
                              Call("update", id.s, <<fields>>, base_version, TRUE))
              /\ cursor' = IF cursor + 1 < Len(merge_actions.to_update)
                           THEN cursor + 1 ELSE 0
              /\ merge_actions' = merge_actions
              /\ Goto(IF cursor + 1 < Len(merge_actions.to_update)
                      THEN "update" ELSE AfterUpdates(args, merge_actions))
              /\ UNCHANGED faults
           \/ /\ ~accepted \/ MayFail
              /\ calls' = Append(calls,
                              Call("update", id.s, <<fields>>, base_version, FALSE))
              /\ faults' = IF accepted THEN faults + 1 ELSE faults
              /\ Raise("remote")
              /\ UNCHANGED <<remote, cursor, merge_actions>>
    /\ UNCHANGED <<args, target_data, first_actions, run, pending, edits, peer, service>>

\* self.delete(uuid=d["__id"], ...) for the next d of to_delete.values().
Delete ==
    /\ pc = "delete"
    /\ LET d == merge_actions.to_delete[cursor + 1].row
           id == d["__id"]
           at == EntityAt(remote, id)
       IN  \/ /\ at # 0
              /\ remote' = [remote EXCEPT
                                !.rows = SelectSeq(@, LAMBDA r : r["__id"] # id)]
              /\ calls' = Append(calls, Call("delete", id.s, <<>>, 0, TRUE))
              /\ cursor' = IF cursor + 1 < Len(merge_actions.to_delete)
                           THEN cursor + 1 ELSE 0
              /\ merge_actions' = merge_actions
              /\ Goto(IF cursor + 1 < Len(merge_actions.to_delete)
                      THEN "delete" ELSE "returned")
              /\ UNCHANGED faults
           \/ /\ at = 0 \/ MayFail
              /\ calls' = Append(calls, Call("delete", id.s, <<>>, 0, FALSE))
              /\ faults' = IF at # 0 THEN faults + 1 ELSE faults
              /\ Raise("remote")
              /\ UNCHANGED <<remote, cursor, merge_actions>>
    /\ UNCHANGED <<args, target_data, first_actions, run, pending, edits, peer, service>>

\* Another client of the Entity List changes an entity while a merge is
\* between its snapshot and its end: the entity gets a new version.
RemoteEdit ==
    /\ pc \notin Finished
    /\ pc # "get_table"
    /\ edits < MaxEdits
    /\ \E at \in 1..Len(remote.rows) :
          remote' = [remote EXCEPT
                        !.rows[at] = UpdatedRow(@, [label |-> StrVal("Z")])]
    /\ edits' = edits + 1
    /\ UNCHANGED <<args, target_data, merge_actions, first_actions, pc, calls,
                   run, pending, cursor, result, error, faults, peer, service>>

Next ==
    \/ StartMerge
    \/ GetTable
    \/ RegisterProperty
    \/ CreateMany
    \/ Update
    \/ Delete
    \/ RemoteEdit

Spec == Init /\ [][Next]_vars

(***************************************************************************)
(* Properties of the diff.                                                 *)
(***************************************************************************)
KeysDisjoint(d1, d2) ==
    \A i \in 1..Len(d1) : \A j \in 1..Len(d2) : ~KeyEq(d1[i].key, d2[j].key)

NoStagedActions(actions) ==
    /\ actions.error = ""
    /\ actions.to_insert = <<>>
    /\ actions.to_update = <<>>
    /\ actions.to_delete = <<>>

\* The arguments of the diff with their defaults resolved.
LabelKeyOf(a) ==
    IF a.source_label_key = {} THEN default_key ELSE Some(a.source_label_key)
MatchKeysOf(a) ==
    Sorted(IF a.match_keys = {} THEN <<default_key>> ELSE Some(a.match_keys))
NormalizedSource(a) ==
    [i \in 1..Len(a.data) |->
        NormalizedRow(a.data[i], LabelKeyOf(a), a.source_keys)]

\* C1: whenever the diff returns, no composite key is in two of to_insert,
\* to_update and to_delete, also when target rows share a composite key.
C1_PartitionsDisjoint ==
    pc = "diffed" =>
        /\ KeysDisjoint(merge_actions.to_insert, merge_actions.to_update)
        /\ KeysDisjoint(merge_actions.to_insert, merge_actions.to_delete)
        /\ KeysDisjoint(merge_actions.to_update, merge_actions.to_delete)

\* C7: the diff of the same source against the rows with the staged actions
\* applied stages nothing.
C7_FixedPoint ==
    pc = "rediffed" => NoStagedActions(merge_actions)

\* Source row s and target row t are identical: the same label, the same
\* other fields, each source value the target's text once coerced to text.
IdenticalRows(s, t) ==
    /\ DOMAIN s = DOMAIN t \ {"__id", "__system"}
    /\ s["label"] = t["label"]
    /\ \A k \in DOMAIN s : t[k].kind = "str" /\ PyStr(s[k]) = t[k].s

IdenticalData(a, target) ==
    /\ Len(a.data) = Len(target)
    /\ \A i \in 1..Len(target) : IdenticalRows(NormalizedSource(a)[i], target[i])

\* C9: a source and a target whose rows are pairwise identical stage nothing.
C9_IdenticalRowsNoop ==
    (pc = "diffed" /\ IdenticalData(args, target_data)) =>
        NoStagedActions(merge_actions)

\* The normalized source rows whose composite key is the key of no target
\* row, each under its composite key, in source order.
UnmatchedSource(a, target) ==
    LET rows == NormalizedSource(a)
        keys == MatchKeysOf(a)
        entries == [i \in 1..Len(rows) |->
                        [key |-> get_key(rows[i], keys), row |-> rows[i]]]
    IN  SelectSeq(entries, LAMBDA e :
            \A j \in 1..Len(target) : ~KeyEq(get_key(target[j], keys), e.key))

\* C10: to_insert holds exactly the normalized source rows whose composite
\* key is the key of no target row, each under its composite key.
C10_InsertIsUnmatchedSource ==
    pc = "diffed" =>
        merge_actions.to_insert = UnmatchedSource(args, target_data)

C10_Witness ==
    /\ pc = "diffed"
    /\ Len(merge_actions.to_insert) = 1
    /\ Len(args.data) = 2
    /\ Len(target_data) = 2

(***************************************************************************)
(* Properties of merge.                                                    *)
(***************************************************************************)
RunCalls(r) == SelectSeq(calls, LAMBDA c : c.run = r)
WriteOps == {"property", "create_many", "update", "delete"}
ValidationErrors == {"source_keys", "missing_match_key", "not_unique"}

Stage(op) ==
    CASE op = "get_table" -> 1
      [] op = "property" -> 2
      [] op = "create_many" -> 3
      [] op = "update" -> 4
      [] op = "delete" -> 5

CountOf(s, op) == Cardinality({i \in 1..Len(s) : s[i].op = op})

\* C2: the remote calls of one invocation come in the order snapshot read,
\* property registrations, batch create, updates, deletes, with exactly one
\* snapshot read (the first call) and at most one batch create.
C2_CallOrder ==
    \A r \in 1..run :
        LET s == RunCalls(r)
        IN  /\ \A i \in 1..Len(s) : \A j \in 1..Len(s) :
                    i < j => Stage(s[i].op) <= Stage(s[j].op)
            /\ CountOf(s, "get_table") =
                    IF r = run /\ pc = "get_table" THEN 0 ELSE 1
            /\ CountOf(s, "create_many") <= 1

C2_Witness ==
    /\ pc = "returned"
    /\ \A op \in WriteOps \cup {"get_table"} : CountOf(RunCalls(run), op) > 0

\* C3: a remote call that fails makes the invocation raise at once, with
\* nothing returned and the Entity List as the earlier calls left it, and an
\* invocation that has raised issues no further remote call.
C3_FailureAborts ==
    [][/\ (Len(calls') > Len(calls) /\ ~calls'[Len(calls')].ok) =>
            (pc' = "raised" /\ result' = {} /\ remote' = remote)
       /\ pc = "raised" => (calls' = calls /\ remote' = remote)]_vars

C3_Witness ==
    /\ pc = "raised"
    /\ error = "remote"
    /\ \E i \in 1..Len(calls) : \E j \in 1..Len(calls) :
          /\ i < j
          /\ calls[i].run = run /\ calls[j].run = run
          /\ calls[i].op \in WriteOps /\ calls[i].ok
          /\ ~calls[j].ok

\* The source alone decides these errors: the allow-list omits the label
\* field, a normalized row lacks a match key, two rows have the same key.
InvalidInput(a) ==
    LET rows == NormalizedSource(a)
        keys == MatchKeysOf(a)
    IN  \/ a.source_keys # {} /\ LabelKeyOf(a) \notin Some(a.source_keys)
        \/ \E i \in 1..Len(rows) : MissingKeys(rows[i], keys) # {}
        \/ \E i \in 1..Len(rows) : \E j \in 1..Len(rows) :
              i # j /\ KeyEq(get_key(rows[i], keys), get_key(rows[j], keys))

\* C4 as claimed: an invocation that raises a validation error for its
\* source has issued no remote call, not even the snapshot read.
C4_ValidationBeforeAnyCall ==
    (pc = "raised" /\ error \in ValidationErrors /\ InvalidInput(args)) =>
        RunCalls(run) = <<>>

\* C4 as amended: an invocation that raises a validation error has issued
\* the snapshot read and no other remote call.
C4_ValidationAfterSnapshotOnly ==
    (pc = "raised" /\ error \in ValidationErrors) =>
        /\ Len(RunCalls(run)) = 1
        /\ RunCalls(run)[1].op = "get_table"
        /\ RunCalls(run)[1].ok

C4_Witness ==
    /\ pc = "raised"
    /\ error = "not_unique"
    /\ Len(RunCalls(run)) = 1

\* C5: an invocation that raised a validation error has issued no property
\* registration, batch create, update or delete, and the Entity List is as
\* its snapshot read found it; a merge of an invalid source never gets past
\* its snapshot read, whatever the Entity List holds.
C5_InvalidInputNoWrites ==
    /\ (pc = "raised" /\ error \in ValidationErrors) =>
            /\ \A i \in 1..Len(RunCalls(run)) : RunCalls(run)[i].op \notin WriteOps
            /\ TableOf(remote) = target_data
    /\ InvalidInput(args) =>
            /\ \A i \in 1..Len(calls) : calls[i].op \notin WriteOps
            /\ pc \in {"idle", "get_table", "raised"}
            /\ (pc = "raised" /\ error # "remote") => error \in ValidationErrors

C5_Witness ==
    /\ InvalidInput(args)
    /\ pc = "raised"
    /\ error \in ValidationErrors
    /\ Len(remote.rows) > 0
    /\ run = 2

\* C6: an update is sent with the version its row had in the snapshot of the
\* invocation; when the entity is no longer at that version the update
\* fails, changes nothing, and the invocation raises.
C6_UpdateVersionPrecondition ==
    [][(Len(calls') > Len(calls) /\ calls'[Len(calls')].op = "update") =>
        LET c == calls'[Len(calls')]
            id == StrVal(c.name)
            at == EntityAt(remote, id)
        IN  /\ \E i \in 1..Len(target_data) :
                  /\ target_data[i]["__id"] = id
                  /\ target_data[i]["__system"].n = c.base_version
            /\ (at = 0 \/ remote.rows[at]["__system"].n # c.base_version) =>
                  (~c.ok /\ remote' = remote /\ pc' = "raised")]_vars

C6_Witness ==
    /\ pc = "raised"
    /\ edits = 1
    /\ faults = 0
    /\ calls # <<>>
    /\ calls[Len(calls)].op = "update"
    /\ ~calls[Len(calls)].ok

\* The calls of run r: whether one failed, those of op that succeeded, and
\* those of op that were issued.
FailedPartway(r) ==
    \E i \in 1..Len(calls) : calls[i].run = r /\ ~calls[i].ok
Succeeded(r, op) ==
    {i \in 1..Len(calls) : calls[i].run = r /\ calls[i].op = op /\ calls[i].ok}
Issued(r, op) ==
    {i \in 1..Len(calls) : calls[i].run = r /\ calls[i].op = op}

\* C8: when an invocation failed partway and merge is run again with the
\* same arguments (nobody else touching the Entity List), the second run
\* creates no source row the first one created and updates no entity the
\* first one updated.
C8_RerunRepeatsNothing ==
    (run = 2 /\ edits = 0 /\ FailedPartway(1)) =>
        /\ (Succeeded(1, "create_many") # {} /\ Issued(2, "create_many") # {}) =>
                KeysDisjoint(first_actions.to_insert, merge_actions.to_insert)
        /\ \A i \in Succeeded(1, "update") : \A j \in Issued(2, "update") :
                calls[i].name # calls[j].name

(***************************************************************************)
(* Properties of the diff: what each row of the source and of the target   *)
(* becomes.                                                                *)
(***************************************************************************)
\* The composite key of target row j, and whether a normalized source row of
\* the arguments a has the composite key key.
TargetKey(a, target, j) == get_key(target[j], MatchKeysOf(a))
HasSourceKey(a, key) ==
    \E i \in 1..Len(a.data) :
        KeyEq(get_key(NormalizedSource(a)[i], MatchKeysOf(a)), key)

InToDelete(actions, t) ==
    \E i \in 1..Len(actions.to_delete) : actions.to_delete[i].row = t

\* C11: every target row whose composite key is the key of no source row is
\* in to_delete under its key with all its fields as they were, and no
\* target row whose key is the key of a source row is in to_delete.
C11_UnmatchedTargetDeleted ==
    pc = "diffed" =>
        \A j \in 1..Len(target_data) :
            IF HasSourceKey(args, TargetKey(args, target_data, j))
            THEN ~InToDelete(merge_actions, target_data[j])
            ELSE \E i \in 1..Len(merge_actions.to_delete) :
                    /\ merge_actions.to_delete[i].row = target_data[j]
                    /\ KeyEq(merge_actions.to_delete[i].key,
                             TargetKey(args, target_data, j))

\* Target row j is the row the source row of its key pairs with: the first
\* target row, in snapshot order, that has this key.
FirstWithKey(a, target, j) ==
    \A k \in 1..(j - 1) : ~KeyEq(TargetKey(a, target, k), TargetKey(a, target, j))

\* Normalized source row i of a pairs with target row j.
Pairs(a, target, i, j) ==
    /\ i \in 1..Len(a.data)
    /\ j \in 1..Len(target)
    /\ FirstWithKey(a, target, j)
    /\ KeyEq(get_key(NormalizedSource(a)[i], MatchKeysOf(a)),
             TargetKey(a, target, j))

\* The value of field k in source row s has, as text, the value of t.
TextuallyEqual(s, t, k) == t[k].kind = "str" /\ PyStr(s[k]) = t[k].s

\* Source row s has a field that t lacks, and every field of both is
\* textually equal.
OnlyNewFields(s, t) ==
    /\ DOMAIN s \ DOMAIN t # {}
    /\ \A k \in DOMAIN s \cap DOMAIN t : TextuallyEqual(s, t, k)

\* C12: a paired source row with a field its target row lacks, every field
\* of both rows being textually equal, is in to_update under the pair's key,
\* and its payload is the reserved fields of the target row plus the new
\* field with the source value, and nothing else.
C12_NewSourceFieldStaged ==
    pc = "diffed" =>
        \A i \in 1..Len(args.data) : \A j \in 1..Len(target_data) :
            LET s == NormalizedSource(args)[i]
                t == target_data[j]
            IN  (Pairs(args, target_data, i, j) /\ OnlyNewFields(s, t)) =>
                    \E u \in 1..Len(merge_actions.to_update) :
                        /\ KeyEq(merge_actions.to_update[u].key,
                                 TargetKey(args, target_data, j))
                        /\ merge_actions.to_update[u].row =
                            [k \in {"__id", "__system", "label"}
                                    \cup (DOMAIN s \ DOMAIN t) |->
                                IF k \in DOMAIN t THEN t[k] ELSE s[k]]

C12_Witness ==
    /\ pc = "diffed"
    /\ Len(target_data) = 2
    /\ \E i \in 1..Len(args.data) : \E j \in 1..Len(target_data) :
          /\ Pairs(args, target_data, i, j)
          /\ OnlyNewFields(NormalizedSource(args)[i], target_data[j])
          /\ NormalizedSource(args)[i]["postcode"].kind = "int"

(***************************************************************************)
(* The diff of one source row against one target row of the same label,    *)
(* over values of every kind: text, int, float and None in the source;     *)
(* text, and None for a property without a value, in the target.           *)
(***************************************************************************)
PairSourcePostcodes ==
    {StrVal("2000"), IntVal(2000), FloatVal(2000), NoneVal}
PairTargetPostcodes ==
    {StrVal("2000"), StrVal("2001"), StrVal("2000.0"), StrVal("None"), NoneVal}
PairSourceStates == {StrVal("NSW"), NoneVal}
PairTargetStates == {StrVal("NSW"), StrVal("VIC")}

PairRow(p, s) ==
    RowOf([k \in {"label", "postcode", "state"} |->
            CASE k = "label" -> {StrVal("A")}
              [] k = "postcode" -> p
              [] k = "state" -> s])

InitPair ==
    /\ \E p \in Opt(PairSourcePostcodes) : \E s \in Opt(PairSourceStates) :
          args = [data |-> <<PairRow(p, s)>>, match_keys |-> {},
                  source_label_key |-> {}, source_keys |-> {}]
    /\ \E p \in Opt(PairTargetPostcodes) : \E s \in Opt(PairTargetStates) :
          target_data = Snapshot(<<PairRow(p, s)>>)
    /\ merge_actions = NoActions
    /\ first_actions = NoActions
    /\ pc = "start"
    /\ remote = [rows |-> <<>>, schema |-> {}, created |-> 0]
    /\ calls = <<>>
    /\ run = 0
    /\ pending = {}
    /\ cursor = 0
    /\ result = {}
    /\ error = ""
    /\ faults = 0
    /\ edits = 0
    /\ peer = NoPeer
    /\ service = DefaultService

SpecPair == InitPair /\ [][NextDiff]_vars

\* The payload staged for target row j, if its row is in to_update, and
\* whether field k is staged in it.
PayloadOf(a, target, actions, j) ==
    {actions.to_update[u].row : u \in
        {u \in 1..Len(actions.to_update) :
            /\ KeyEq(actions.to_update[u].key, TargetKey(a, target, j))
            /\ actions.to_update[u].row["__id"] = target[j]["__id"]}}
IsStaged(a, target, actions, j, k) ==
    \E u \in PayloadOf(a, target, actions, j) : k \in DOMAIN u

\* C13: in a matched pair, a non-reserved target field that the source row
\* lacks is not staged, and the row is not in to_update when every field of
\* both rows is textually equal and the source has no new field; a field the
\* source row has with the value None, the value of the target not being
\* None, is staged with the value None and the row is in to_update.
C13_AbsentVersusNull ==
    pc = "diffed" =>
        \A i \in 1..Len(args.data) : \A j \in 1..Len(target_data) :
            LET s == NormalizedSource(args)[i]
                t == target_data[j]
                payload == PayloadOf(args, target_data, merge_actions, j)
            IN  Pairs(args, target_data, i, j) =>
                /\ \A k \in (DOMAIN t \ reserved_keys) \ DOMAIN s :
                        ~IsStaged(args, target_data, merge_actions, j, k)
                /\ (/\ DOMAIN s \subseteq DOMAIN t
                    /\ \A k \in DOMAIN s \ reserved_keys : TextuallyEqual(s, t, k))
                        => payload = {}
                /\ \A k \in (DOMAIN s \cap DOMAIN t) \ reserved_keys :
                        (s[k] = NoneVal /\ t[k] # NoneVal) =>
                            /\ payload # {}
                            /\ \A u \in payload : k \in DOMAIN u /\ u[k] = NoneVal

\* C14: in a matched pair, a non-reserved field of both rows is staged if
\* and only if the text of the source value is not the target value, and the
\* staged value is the source value as it was given.
C14_TextualEquality ==
    pc = "diffed" =>
        \A i \in 1..Len(args.data) : \A j \in 1..Len(target_data) :
            LET s == NormalizedSource(args)[i]
                t == target_data[j]
            IN  Pairs(args, target_data, i, j) =>
                \A k \in (DOMAIN s \cap DOMAIN t) \ reserved_keys :
                    /\ IsStaged(args, target_data, merge_actions, j, k)
                            <=> ~TextuallyEqual(s, t, k)
                    /\ \A u \in PayloadOf(args, target_data, merge_actions, j) :
                            k \in DOMAIN u => u[k] = s[k]

\* The int 2000 against the text "2001" is staged as the int 2000, next to
\* a field that is textually equal and not staged.
C14_Witness ==
    /\ pc = "diffed"
    /\ Len(args.data) = 1 /\ Len(target_data) = 1
    /\ "postcode" \in DOMAIN args.data[1] /\ "postcode" \in DOMAIN target_data[1]
    /\ args.data[1]["postcode"] = IntVal(2000)
    /\ target_data[1]["postcode"] = StrVal("2001")
    /\ "state" \in DOMAIN args.data[1] /\ "state" \in DOMAIN target_data[1]
    /\ TextuallyEqual(args.data[1], target_data[1], "state")
    /\ \E u \in PayloadOf(args, target_data, merge_actions, 1) :
          u["postcode"] = IntVal(2000) /\ "state" \notin DOMAIN u

(***************************************************************************)
(* The validation of the source: longer sources of few distinct rows,      *)
(* under match keys the rows may lack, a renamed label field and           *)
(* allow-lists, against a snapshot of at most one row.                     *)
(***************************************************************************)
\* Rows labelled by their "label" field, with or without a postcode and a
\* state; rows labelled by their "city" field, with or without a postcode
\* and a field of their own named "label".
LabelledRows ==
    {RowOf([k \in {"label", "postcode", "state"} |->
                CASE k = "label" -> {l}
                  [] k = "postcode" -> p
                  [] k = "state" -> s]) :
        l \in Labels, p \in Opt(TargetPostcodes), s \in Opt({StrVal("NSW")})}
CityRows ==
    {RowOf([k \in {"city", "postcode", "label"} |->
                CASE k = "city" -> {c}
                  [] k = "postcode" -> p
                  [] k = "label" -> l]) :
        c \in Labels, p \in Opt({StrVal("2000")}), l \in Opt({StrVal("X")})}

SourceConfigs ==
    {DiffConfig({}, {}, {}),
     DiffConfig({<<"state", "postcode">>}, {"label"}, {}),
     DiffConfig({<<"postcode">>}, {"city"}, {{"city"}}),
     DiffConfig({}, {"city"}, {{"city", "postcode"}}),
     DiffConfig({}, {"city"}, {{"city", "label"}}),
     DiffConfig({}, {"city"}, {{"postcode"}})}

SourceSnapshots ==
    {<<>>,
     <<[label |-> StrVal("A")]>>,
     <<[label |-> StrVal("A"), postcode |-> StrVal("2001"), state |-> StrVal("NSW")]>>}

InitSource ==
    /\ \E c \in SourceConfigs :
       \E data \in SeqsUpTo(IF c.source_label_key = {"city"}
                            THEN CityRows ELSE LabelledRows,
                            MaxSourceRows + 1) :
          args = [data |-> data, match_keys |-> c.match_keys,
                  source_label_key |-> c.source_label_key,
                  source_keys |-> c.source_keys]
    /\ \E rows \in SourceSnapshots : target_data = Snapshot(rows)
    /\ merge_actions = NoActions
    /\ first_actions = NoActions
    /\ pc = "start"
    /\ remote = [rows |-> <<>>, schema |-> {}, created |-> 0]
    /\ calls = <<>>
    /\ run = 0
    /\ pending = {}
    /\ cursor = 0
    /\ result = {}
    /\ error = ""
    /\ faults = 0
    /\ edits = 0
    /\ peer = NoPeer
    /\ service = DefaultService

SpecSource == InitSource /\ [][NextDiff]_vars

\* What is wrong with the source of the arguments a: the allow-list omits
\* the label field; the normalized rows that lack a match key; two
\* normalized rows that have every match key have the same composite key.
ConfigError(a) ==
    a.source_keys # {} /\ LabelKeyOf(a) \notin Some(a.source_keys)
RowsLackingKey(a) ==
    {i \in 1..Len(a.data) :
        MissingKeys(NormalizedSource(a)[i], MatchKeysOf(a)) # {}}
DuplicatePairs(a) ==
    {p \in (1..Len(a.data)) \X (1..Len(a.data)) :
        /\ p[1] < p[2]
        /\ p[1] \notin RowsLackingKey(a)
        /\ p[2] \notin RowsLackingKey(a)
        /\ KeyEq(get_key(NormalizedSource(a)[p[1]], MatchKeysOf(a)),
                 get_key(NormalizedSource(a)[p[2]], MatchKeysOf(a)))}

FirstRowLackingKey(a) ==
    CHOOSE i \in RowsLackingKey(a) : \A j \in RowsLackingKey(a) : i <= j
NamedField(a) ==
    LET row == NormalizedSource(a)[FirstRowLackingKey(a)]
        lacking == {k \in {MatchKeysOf(a)[n] : n \in 1..Len(MatchKeysOf(a))} :
                        k \notin DOMAIN row}
    IN  CHOOSE k \in lacking : \A other \in lacking : Rank(k) <= Rank(other)

\* C16: when a normalized source row lacks a match key the diff raises the
\* missing-key error, which names the first match key (in sorted order) that
\* the first such row lacks, and returns nothing.
C16_MissingKeyNamed ==
    (pc # "start" /\ ~ConfigError(args) /\ RowsLackingKey(args) # {}) =>
        /\ pc = "raised"
        /\ merge_actions = ErrorResult("missing_match_key", NamedField(args))

\* Two rows with the same key, then a row with a postcode and no state.
C16_Witness ==
    /\ pc = "raised"
    /\ merge_actions.error = "missing_match_key"
    /\ merge_actions.missing = "state"
    /\ Len(args.data) = 3
    /\ RowsLackingKey(args) = {3}
    /\ DuplicatePairs(args) # {}

\* The allow-list of the arguments a, and the normalized form the source row
\* s is to have under it: the label field renamed to "label", and the other
\* fields of s that are in the allow-list.
AllowList(a) == Some(a.source_keys)
AllowedRow(a, s) ==
    [k \in {"label"} \cup ((DOMAIN s \ {LabelKeyOf(a)}) \cap AllowList(a)) |->
        IF k = "label" THEN s[LabelKeyOf(a)] ELSE s[k]]
StagedRows(actions) ==
    {actions.to_insert[i].row : i \in 1..Len(actions.to_insert)}
        \cup {actions.to_update[i].row : i \in 1..Len(actions.to_update)}

\* C17: an allow-list that omits the label field makes the diff raise the
\* configuration error, whatever the rows are; under any other allow-list
\* the rows of to_insert are the allowed form of their source rows (all of
\* them, in source order, when the target is empty), source_keys holds the
\* fields of the allowed forms only, and no staged row has a field that is
\* neither reserved nor in the allow-list.
C17_AllowList ==
    (pc # "start" /\ args.source_keys # {}) =>
        IF ConfigError(args)
        THEN pc = "raised" /\ merge_actions = ErrorResult("source_keys", "")
        ELSE pc = "diffed" =>
                /\ \A i \in 1..Len(merge_actions.to_insert) :
                        \E n \in 1..Len(args.data) :
                            merge_actions.to_insert[i].row =
                                AllowedRow(args, args.data[n])
                /\ target_data = <<>> =>
                        DictRows(merge_actions.to_insert) =
                            [n \in 1..Len(args.data) |->
                                AllowedRow(args, args.data[n])]
                /\ merge_actions.source_keys =
                        UNION {DOMAIN AllowedRow(args, args.data[n]) :
                                    n \in 1..Len(args.data)}
                /\ \A row \in StagedRows(merge_actions) :
                        DOMAIN row \subseteq reserved_keys \cup AllowList(args)

(***************************************************************************)
(* Properties of the diff: the order of the match keys.                    *)
(***************************************************************************)
Reverse(seq) == [i \in 1..Len(seq) |-> seq[Len(seq) + 1 - i]]

\* The arguments a with the match keys given in the opposite order.
WithReversedKeys(a) ==
    [a EXCEPT !.match_keys = IF @ = {} THEN {} ELSE {Reverse(Some(@))}]

\* The target row of identifier id.
TargetRowOf(target, id) ==
    target[CHOOSE j \in 1..Len(target) : target[j]["__id"] = id]

\* C18: the match_keys of the result are the given match keys in sorted
\* order; the key of every entry of to_insert, to_update and to_delete lists
\* the values of its row in that order; and the same match keys given in
\* the opposite order yield the same three mappings.
C18_SortedMatchKeys ==
    pc = "diffed" =>
        LET mk == merge_actions.match_keys
            given == IF args.match_keys = {} THEN <<"label">>
                     ELSE Some(args.match_keys)
            other == prep_data_for_merge(WithReversedKeys(args), target_data)
        IN  /\ Len(mk) = Len(given)
            /\ {mk[n] : n \in 1..Len(mk)} = {given[n] : n \in 1..Len(given)}
            /\ \A m \in 1..Len(mk) : \A n \in 1..Len(mk) :
                    m < n => Rank(mk[m]) <= Rank(mk[n])
            /\ \A i \in 1..Len(merge_actions.to_insert) :
                    merge_actions.to_insert[i].key =
                        [n \in 1..Len(mk) |-> merge_actions.to_insert[i].row[mk[n]]]
            /\ \A i \in 1..Len(merge_actions.to_delete) :
                    merge_actions.to_delete[i].key =
                        [n \in 1..Len(mk) |-> merge_actions.to_delete[i].row[mk[n]]]
            /\ \A i \in 1..Len(merge_actions.to_update) :
                    merge_actions.to_update[i].key =
                        [n \in 1..Len(mk) |->
                            TargetRowOf(target_data,
                                merge_actions.to_update[i].row["__id"])[mk[n]]]
            /\ other.error = ""
            /\ other.match_keys = mk
            /\ other.to_insert = merge_actions.to_insert
            /\ other.to_update = merge_actions.to_update
            /\ other.to_delete = merge_actions.to_delete

C18_Witness ==
    /\ pc = "diffed"
    /\ args.match_keys = {<<"postcode", "label">>}
    /\ merge_actions.match_keys = <<"label", "postcode">>
    /\ Len(merge_actions.to_insert) = 1
    /\ Len(merge_actions.to_delete) = 1
    /\ merge_actions.to_insert[1].key = <<StrVal("A"), IntVal(2000)>>

(***************************************************************************)
(* Properties of merge: the fields sent and the properties registered.     *)
(***************************************************************************)
\* The field names of the normalized source rows and of the snapshot rows.
SourceFields(a) ==
    UNION {DOMAIN NormalizedSource(a)[i] : i \in 1..Len(a.data)}
TargetFields(target) == UNION {DOMAIN target[j] : j \in 1..Len(target)}

\* Where merge stands once final_keys is chosen.
PastProperties == {"create_many", "update", "delete", "returned"}

\* C19: once merge has chosen final_keys, it is the union of the source and
\* target field names when add_new_properties is set and their intersection
\* when it is not, without "__id", "__system" and "label" in both cases; what
\* is returned carries it; and with add_new_properties not set, a merge that
\* no remote fault and no other client disturbs raises nothing but a
\* validation error, whatever fields only the source has.
C19_FinalKeys ==
    /\ pc \in PastProperties =>
            /\ merge_actions.final_keys =
                    (IF args.add_new_properties
                     THEN SourceFields(args) \cup TargetFields(target_data)
                     ELSE SourceFields(args) \cap TargetFields(target_data))
                        \ {"__id", "__system", "label"}
            /\ pc = "returned" => result = {merge_actions}
    /\ (pc = "raised" /\ ~args.add_new_properties /\ faults = 0 /\ edits = 0) =>
            error \in ValidationErrors

\* A merge without add_new_properties returned: the source has a field the
\* target lacks, and final_keys is the one property they share.
C19_Witness ==
    /\ pc = "returned"
    /\ ~args.add_new_properties
    /\ "state" \in SourceFields(args) \ TargetFields(target_data)
    /\ merge_actions.final_keys = {"postcode"}
    /\ \E i \in 1..Len(calls) : calls[i].run = run /\ calls[i].op = "update"

\* The places in calls of the register-property calls of run r, and the
\* fields merge is to register: those of the source that the snapshot rows
\* lack, unless reserved, when add_new_properties is set.
PropertyCalls(r) ==
    {i \in 1..Len(calls) : calls[i].run = r /\ calls[i].op = "property"}
FieldsToRegister(a, target) ==
    IF a.add_new_properties
    THEN (SourceFields(a) \ TargetFields(target)) \ {"__id", "__system", "label"}
    ELSE {}

\* C20: the register-property calls of an invocation name only fields to
\* register, each at most once, and come before any create, update or
\* delete; once merge is past them every such field has been registered by
\* one successful call; a failed registration is the last call of the
\* invocation, which raises, and the properties registered before it are in
\* the schema.
C20_PropertyRegistration ==
    LET mine == PropertyCalls(run)
        fields == FieldsToRegister(args, target_data)
    IN  /\ \A i \in mine : calls[i].name \in fields
        /\ \A i \in mine : \A j \in mine : i # j => calls[i].name # calls[j].name
        /\ \A i \in mine : \A j \in 1..Len(calls) :
                (calls[j].run = run /\ calls[j].op \in {"create_many", "update", "delete"})
                    => i < j
        /\ pc \in PastProperties =>
                /\ {calls[i].name : i \in mine} = fields
                /\ \A i \in mine : calls[i].ok
        /\ \A i \in mine : ~calls[i].ok =>
                /\ i = Len(calls)
                /\ pc = "raised" /\ error = "remote" /\ result = {}
        /\ \A i \in mine : calls[i].ok => calls[i].name \in remote.schema

\* Two fields to register: the first registration succeeded, the second
\* failed, and the first property is in the schema.
C20_Witness ==
    /\ pc = "raised"
    /\ Cardinality(PropertyCalls(run)) = 2
    /\ \E i \in PropertyCalls(run) : \E j \in PropertyCalls(run) :
          /\ i < j
          /\ calls[i].ok /\ ~calls[j].ok
          /\ calls[i].name \in remote.schema
          /\ calls[j].name \notin remote.schema

(***************************************************************************)
(* Properties of merge: a property the Entity List already has.            *)
(***************************************************************************)
\* The call just issued, if the step issued one.
IssuedCall(before, after) == Len(after) = Len(before) + 1

\* C21: when merge registers a property that the Entity List already has
\* (the remote itself not failing), the registration counts as done: the
\* invocation does not raise and goes on with what follows.
C21_ExistingPropertySatisfied ==
    [][(/\ IssuedCall(calls, calls')
        /\ calls'[Len(calls')].op = "property"
        /\ calls'[Len(calls')].name \in remote.schema
        /\ faults' = faults)
            => (pc' # "raised" /\ pending' = pending \ {calls'[Len(calls')].name})]_vars

(***************************************************************************)
(* Properties of merge: the flags and what is returned.                    *)
(***************************************************************************)
\* The arguments of a that the diff reads.
DiffArgs(a) ==
    [data |-> a.data, match_keys |-> a.match_keys,
     source_label_key |-> a.source_label_key, source_keys |-> a.source_keys]

\* C22: without update_matched no update request is issued and without
\* delete_not_matched no delete request is issued; what merge returns holds
\* the to_insert, to_update and to_delete of the diff of the source against
\* the snapshot, whole, whatever the three flags are.
C22_FlagGating ==
    /\ ~args.update_matched => \A i \in 1..Len(calls) : calls[i].op # "update"
    /\ ~args.delete_not_matched => \A i \in 1..Len(calls) : calls[i].op # "delete"
    /\ pc = "returned" =>
        \E m \in result :
            LET diff == prep_data_for_merge(DiffArgs(args), target_data)
            IN  /\ m.to_insert = diff.to_insert
                /\ m.to_update = diff.to_update
                /\ m.to_delete = diff.to_delete

\* Both flags off: a row was created, and the update and the delete the
\* diff staged are returned and were not sent.
C22_Witness ==
    /\ pc = "returned"
    /\ ~args.update_matched /\ ~args.delete_not_matched
    /\ \E m \in result : Len(m.to_update) > 0 /\ Len(m.to_delete) > 0
    /\ CountOf(RunCalls(run), "create_many") = 1
    /\ CountOf(RunCalls(run), "update") = 0
    /\ CountOf(RunCalls(run), "delete") = 0

(***************************************************************************)
(* Two invocations of merge, with the same arguments, against the same     *)
(* Entity List.  Each has its own locals; the one that is not running is   *)
(* kept in peer, and Switch gives the turn to it between two remote calls. *)
(***************************************************************************)
RaceSources ==
    {<<Row2("A", "2000"), Row2("B", "2000")>>,
     <<Row2("A", "2000")>>}

RaceRemotes ==
    {[rows |-> <<>>, schema |-> {}, created |-> 0],
     [rows |-> <<Entity(1, 1, Row2("A", "2001")), Entity(2, 3, Row2("C", "2000"))>>,
      schema |-> {"postcode"}, created |-> 2]}

InitRace ==
    /\ \E data \in RaceSources : \E upd \in BOOLEAN : \E del \in BOOLEAN :
          args = [data |-> data, match_keys |-> {},
                  source_label_key |-> {}, source_keys |-> {},
                  add_new_properties |-> TRUE, update_matched |-> upd,
                  delete_not_matched |-> del,
                  project_id |-> {}, entity_list_name |-> {}]
    /\ remote \in RaceRemotes
    /\ target_data = Called(1).target_data
    /\ merge_actions = Called(1).merge_actions
    /\ first_actions = NoActions
    /\ pc = Called(1).pc
    /\ calls = <<>>
    /\ run = Called(1).run
    /\ pending = Called(1).pending
    /\ cursor = Called(1).cursor
    /\ result = Called(1).result
    /\ error = Called(1).error
    /\ faults = 0
    /\ edits = 0
    /\ peer = Called(2)
    /\ service = DefaultService

\* The running invocation waits and the other one goes on.
Switch ==
    /\ peer.pc \notin Finished \cup {"none"}
    /\ peer' = [run |-> run, pc |-> pc, target_data |-> target_data,
                merge_actions |-> merge_actions, pending |-> pending,
                cursor |-> cursor, result |-> result, error |-> error]
    /\ run' = peer.run
    /\ pc' = peer.pc
    /\ target_data' = peer.target_data
    /\ merge_actions' = peer.merge_actions
    /\ pending' = peer.pending
    /\ cursor' = peer.cursor
    /\ result' = peer.result
    /\ error' = peer.error
    /\ UNCHANGED <<args, first_actions, remote, calls, faults, edits, service>>

NextRace ==
    \/ GetTable
    \/ RegisterProperty
    \/ CreateMany
    \/ Update
    \/ Delete
    \/ RemoteEdit
    \/ Switch

SpecRace == InitRace /\ [][NextRace]_vars

\* The version the running invocation read for the entity of identifier id.
SnapshotVersions(id) ==
    {target_data[i]["__system"].n :
        i \in {i \in 1..Len(target_data) : target_data[i]["__id"] = id}}

\* C23: with two invocations interleaved, a batch create is applied whatever
\* the Entity List holds by then, a delete is applied to its entity whatever
\* became of it since the snapshot, and an update is applied only when its
\* entity is still at the version of the snapshot: otherwise it is refused
\* and changes nothing.
C23_RacingWrites ==
    [][IssuedCall(calls, calls') =>
        LET c == calls'[Len(calls')]
            at == EntityAt(remote, StrVal(c.name))
        IN  /\ (c.op = "create_many" /\ faults' = faults) =>
                    /\ c.ok
                    /\ Len(remote'.rows) = Len(remote.rows) + Len(c.rows)
                    /\ \A i \in 1..Len(remote.rows) : remote'.rows[i] = remote.rows[i]
            /\ (c.op = "delete" /\ at # 0 /\ faults' = faults) =>
                    /\ c.ok
                    /\ EntityAt(remote', StrVal(c.name)) = 0
            /\ (c.op = "update"
                    /\ (at = 0 \/ remote.rows[at]["__system"].n
                                    \notin SnapshotVersions(StrVal(c.name)))) =>
                    (~c.ok /\ remote' = remote)]_vars

\* Who created the rows: the runs whose batch create succeeded.
Creators == {calls[i].run : i \in {i \in 1..Len(calls) :
                                calls[i].op = "create_many" /\ calls[i].ok}}

\* Both invocations read the Entity List before either wrote; both created a
\* row labelled "B", one updated the row of "A" and deleted a row that a
\* third party had edited, and the update of the other was refused.
C23_Witness ==
    /\ Len(calls) >= 2
    /\ calls[1].op = "get_table" /\ calls[2].op = "get_table"
    /\ Creators = {1, 2}
    /\ Cardinality({i \in 1..Len(remote.rows) :
                        remote.rows[i]["label"] = StrVal("B")}) = 2
    /\ edits = 1 /\ faults = 0
    /\ \E i \in 1..Len(calls) : calls[i].op = "update" /\ calls[i].ok
    /\ \E i \in 1..Len(calls) : calls[i].op = "delete" /\ calls[i].ok
    /\ calls[Len(calls)].op = "update" /\ ~calls[Len(calls)].ok

(***************************************************************************)
(* Properties of the diff: values of the match keys that are not text.     *)
(***************************************************************************)
\* The composite key of a source row has, value by value, the text of the
\* composite key of a target row.
TextKeyEq(source_key, target_key) ==
    /\ Len(source_key) = Len(target_key)
    /\ \A n \in 1..Len(source_key) :
            /\ target_key[n].kind = "str"
            /\ PyStr(source_key[n]) = target_key[n].s

\* No other target row has, as text, the composite key of target row j.
OnlyWithKey(a, target, j) ==
    \A k \in 1..Len(target) :
        k # j => ~TextKeyEq(TargetKey(a, target, k), TargetKey(a, target, j))

\* C24: a source row whose match-key values have the text of the match-key
\* values of a target row (the only one with that key) pairs with it: the
\* source row is not in to_insert and the target row is not in to_delete.
C24_TextualMatchKeys ==
    pc = "diffed" =>
        \A i \in 1..Len(args.data) : \A j \in 1..Len(target_data) :
            LET s == NormalizedSource(args)[i]
                key == get_key(s, MatchKeysOf(args))
            IN  (/\ TextKeyEq(key, TargetKey(args, target_data, j))
                 /\ OnlyWithKey(args, target_data, j)) =>
                    /\ \A n \in 1..Len(merge_actions.to_insert) :
                            merge_actions.to_insert[n].row # s
                    /\ ~InToDelete(merge_actions, target_data[j])

(***************************************************************************)
(* Properties of the diff: every row is accounted for.                     *)
(***************************************************************************)
\* The composite key of normalized source row i, and the pairs of a source
\* row and a target row that have the same composite key.
SourceKey(a, i) == get_key(NormalizedSource(a)[i], MatchKeysOf(a))
KeyPairs(a, target) ==
    {p \in (1..Len(a.data)) \X (1..Len(target)) :
        KeyEq(SourceKey(a, p[1]), TargetKey(a, target, p[2]))}

\* The entries of the mapping d that hold the row row.
EntriesOf(d, row) == {n \in 1..Len(d) : d[n].row = row}
\* The entries of to_update whose payload is for the target row t.
UpdatesOf(actions, t) ==
    {n \in 1..Len(actions.to_update) :
        actions.to_update[n].row["__id"] = t["__id"]}

\* C25: each normalized source row is in to_insert or paired with exactly
\* one target row, never both; each target row is in to_delete or paired
\* with exactly one source row, never both; a paired target row is in
\* to_update when the pair changed and in none of the mappings otherwise;
\* and |to_insert| + pairs = |S|, |to_delete| + pairs = |T|.
C25_EveryRowOnce ==
    pc = "diffed" =>
        LET S == NormalizedSource(args)
            T == target_data
            pairs == KeyPairs(args, T)
        IN  /\ \A i \in 1..Len(S) :
                IF \E p \in pairs : p[1] = i
                THEN /\ Cardinality({p \in pairs : p[1] = i}) = 1
                     /\ EntriesOf(merge_actions.to_insert, S[i]) = {}
                ELSE Cardinality(EntriesOf(merge_actions.to_insert, S[i])) = 1
            /\ \A j \in 1..Len(T) :
                IF \E p \in pairs : p[2] = j
                THEN /\ Cardinality({p \in pairs : p[2] = j}) = 1
                     /\ EntriesOf(merge_actions.to_delete, T[j]) = {}
                ELSE /\ Cardinality(EntriesOf(merge_actions.to_delete, T[j])) = 1
                     /\ UpdatesOf(merge_actions, T[j]) = {}
            /\ \A p \in pairs :
                Cardinality(UpdatesOf(merge_actions, T[p[2]])) =
                    IF ForUpdate(T[p[2]], S[p[1]]) THEN 1 ELSE 0
            /\ Len(merge_actions.to_insert) + Cardinality(pairs) = Len(S)
            /\ Len(merge_actions.to_delete) + Cardinality(pairs) = Len(T)

(***************************************************************************)
(* Properties of merge: the batch create.                                  *)
(***************************************************************************)
\* The places in calls of the batch-create calls of run r.
CreateCalls(r) ==
    {i \in 1..Len(calls) : calls[i].run = r /\ calls[i].op = "create_many"}

\* The row cut to its label and its fields that are in keys.
Reduced(row, keys) ==
    [k \in {k \in DOMAIN row : k = "label" \/ k \in keys} |-> row[k]]

\* Where merge stands once it is past the batch create.
PastCreate == {"update", "delete", "returned"}

\* C26: an invocation issues at most one batch-create call; the call of the
\* current invocation is issued for a to_insert that is not empty and
\* carries every row of to_insert, in its order, each cut to its label and
\* its fields in final_keys; past the place of the batch create, the call
\* has been issued exactly when to_insert is not empty.
C26_BatchInsert ==
    /\ \A r \in 1..run : Cardinality(CreateCalls(r)) <= 1
    /\ \A i \in CreateCalls(run) :
            /\ Len(merge_actions.to_insert) > 0
            /\ calls[i].rows =
                [n \in 1..Len(merge_actions.to_insert) |->
                    Reduced(merge_actions.to_insert[n].row,
                            merge_actions.final_keys)]
    /\ pc \in PastCreate =>
            (CreateCalls(run) # {} <=> Len(merge_actions.to_insert) > 0)

\* Two rows were created in one call, one of them without a field it has in
\* to_insert.
C26_Witness ==
    /\ pc = "returned"
    /\ \E i \in CreateCalls(run) :
          /\ calls[i].ok
          /\ Len(calls[i].rows) = 2
          /\ \E n \in 1..2 :
                DOMAIN calls[i].rows[n] # DOMAIN merge_actions.to_insert[n].row

(***************************************************************************)
(* Properties of merge: the update requests.                               *)
(***************************************************************************)
\* The update calls of run r, in the order they were issued.
UpdateCalls(r) == SelectSeq(calls, LAMBDA c : c.run = r /\ c.op = "update")

\* Where merge stands once it is past its updates.
PastUpdates == {"delete", "returned"}

\* C27: the update requests of an invocation are for the rows of to_update,
\* one each and in its order: the request is addressed by the identifier of
\* the payload and sends the label of the payload and those of its other
\* fields that are in final_keys, nothing else; with update_matched set, a
\* merge that is past its updates has sent one for every row of to_update,
\* and no request is ever sent for an entity that has no row in to_update.
C27_UpdateRequests ==
    LET sent == UpdateCalls(run)
    IN  /\ Len(sent) <= Len(merge_actions.to_update)
        /\ \A n \in 1..Len(sent) :
                LET u == merge_actions.to_update[n].row
                IN  /\ sent[n].name = u["__id"].s
                    /\ sent[n].rows =
                        <<[k \in {"label"} \cup
                                {k \in DOMAIN u : k \in merge_actions.final_keys} |->
                            u[k]]>>
                    /\ n < Len(sent) => sent[n].ok
        /\ (pc \in PastUpdates /\ args.update_matched) =>
                Len(sent) = Len(merge_actions.to_update)
        /\ \A n \in 1..Len(sent) : \A k \in 1..Len(sent) :
                n # k => sent[n].name # sent[k].name

\* Two entities were updated by one invocation, and a staged field that is
\* not in final_keys was left out of a request.
C27_Witness ==
    /\ pc = "returned"
    /\ Len(UpdateCalls(run)) = 2
    /\ \A n \in 1..2 : UpdateCalls(run)[n].ok
    /\ \E n \in 1..2 :
          DOMAIN UpdateCalls(run)[n].rows[1] #
              DOMAIN merge_actions.to_update[n].row \ {"__id", "__system"}

(***************************************************************************)
(* merge with a project and an Entity List given as arguments, as defaults *)
(* of the service, as both or as neither.                                  *)
(***************************************************************************)
ProjectArguments == Opt({1, 2})
ListArguments == Opt({"towns"})
Services ==
    {[default_project_id |-> p, default_entity_list_name |-> n] :
        p \in Opt({1}), n \in Opt({"trees"})}

InitAddress ==
    /\ \E add \in BOOLEAN : \E del \in BOOLEAN :
       \E project_id \in ProjectArguments : \E name \in ListArguments :
          args = [data |-> <<Row3("A", "2000", "NSW"), Row2("B", "2000")>>,
                  match_keys |-> {}, source_label_key |-> {},
                  source_keys |-> {},
                  add_new_properties |-> add, update_matched |-> TRUE,
                  delete_not_matched |-> del,
                  project_id |-> project_id, entity_list_name |-> name]
    /\ service \in Services
    /\ remote \in RaceRemotes
    /\ target_data = <<>>
    /\ merge_actions = NoActions
    /\ first_actions = NoActions
    /\ pc = "idle"
    /\ calls = <<>>
    /\ run = 0
    /\ pending = {}
    /\ cursor = 0
    /\ result = {}
    /\ error = ""
    /\ faults = 0
    /\ edits = 0
    /\ peer = NoPeer

SpecAddress == InitAddress /\ [][Next]_vars

\* C28: every remote call of an invocation addresses the project given by
\* the project_id argument, or by the default of the service when the
\* argument is omitted, and the Entity List given by the entity_list_name
\* argument, or by the default of the service when that is omitted.
C28_OneAddress ==
    \A i \in 1..Len(calls) :
        /\ {calls[i].project} =
                coalesce(args.project_id, service.default_project_id)
        /\ {calls[i].list} =
                coalesce(args.entity_list_name, service.default_entity_list_name)

(***************************************************************************)
(* Properties of merge: the reserved fields.                               *)
(***************************************************************************)
\* Source row s differs from target row t in nothing but, at most, its
\* label: it has no field that t lacks, and each of its other fields has, as
\* text, the value of t.
AtMostLabelDiffers(s, t) ==
    /\ DOMAIN s \subseteq DOMAIN t
    /\ \A k \in DOMAIN s \ reserved_keys : TextuallyEqual(s, t, k)

\* C29: the "__id", "__system" and "label" of every payload of to_update are
\* those of its target row; a pair whose source row differs from the target
\* row in nothing but its label is not in to_update; and every update
\* request sends the label of the target row.
C29_ReservedFromTarget ==
    /\ \A n \in 1..Len(merge_actions.to_update) :
            LET u == merge_actions.to_update[n].row
            IN  /\ \E j \in 1..Len(target_data) : target_data[j]["__id"] = u["__id"]
                /\ \A k \in reserved_keys :
                        u[k] = TargetRowOf(target_data, u["__id"])[k]
    /\ merge_actions.match_keys # <<>> =>
            \A i \in 1..Len(args.data) : \A j \in 1..Len(target_data) :
                (/\ Pairs(args, target_data, i, j)
                 /\ AtMostLabelDiffers(NormalizedSource(args)[i], target_data[j]))
                    => UpdatesOf(merge_actions, target_data[j]) = {}
    /\ \A n \in 1..Len(UpdateCalls(run)) :
            LET c == UpdateCalls(run)[n]
            IN  c.rows[1]["label"] =
                    TargetRowOf(target_data, StrVal(c.name))["label"]

\* Matched by postcode, the source row labelled A pairs with the entity
\* labelled C: the update that adds its state sends the label C.
C29_Witness ==
    /\ pc = "returned"
    /\ merge_actions.match_keys = <<"postcode">>
    /\ Len(UpdateCalls(run)) = 1
    /\ UpdateCalls(run)[1].ok
    /\ UpdateCalls(run)[1].rows[1]["label"] = StrVal("C")
    /\ "state" \in DOMAIN UpdateCalls(run)[1].rows[1]
    /\ \A i \in 1..Len(args.data) : args.data[i]["label"] = StrVal("A")

(***************************************************************************)
(* Properties of merge: a snapshot without rows.                           *)
(***************************************************************************)
\* The invocation has diffed its source against a snapshot without rows.
DiffedAgainstNoRows ==
    /\ pc \notin {"idle", "get_table"}
    /\ merge_actions.match_keys # <<>>
    /\ target_data = <<>>

\* C30: against a snapshot without rows target_keys is empty, whatever the
\* schema of the Entity List holds.  Without add_new_properties no property
\* is registered, final_keys is empty and the batch create carries every
\* source row with its label only; with add_new_properties the properties
\* merge registers, and has yet to register, are all the non-reserved source
\* fields, and past the registrations a call was issued for each.
C30_EmptySnapshot ==
    DiffedAgainstNoRows =>
        LET registered == {calls[i].name : i \in PropertyCalls(run)}
            fields == SourceFields(args) \ {"__id", "__system", "label"}
        IN  /\ merge_actions.target_keys = {}
            /\ ~args.add_new_properties =>
                    /\ registered = {}
                    /\ pc \in PastProperties => merge_actions.final_keys = {}
                    /\ \A i \in CreateCalls(run) :
                            /\ Len(calls[i].rows) = Len(args.data)
                            /\ \A n \in 1..Len(calls[i].rows) :
                                    calls[i].rows[n] =
                                        [label |-> NormalizedSource(args)[n]["label"]]
            /\ args.add_new_properties =>
                    /\ registered \cup pending = fields
                    /\ pc \in PastProperties => registered = fields

\* The schema has the property and no entity exists: without
\* add_new_properties the two rows are created with their labels only.
C30_Witness ==
    /\ DiffedAgainstNoRows
    /\ pc = "returned"
    /\ ~args.add_new_properties
    /\ "postcode" \in remote.schema
    /\ "postcode" \in SourceFields(args)
    /\ \E i \in CreateCalls(run) : calls[i].ok /\ Len(calls[i].rows) = 2
    /\ \A n \in 1..Len(remote.rows) : "postcode" \notin DOMAIN remote.rows[n]

=============================================================================
